---- MODULE Spec2Model ----
(***************************************************************************)
(* Webhook ingestion pipeline: the receiver (HMAC check, enqueue), the     *)
(* batch processor (parse, persist, count) and the signature generator.    *)
(* Python str values are TLA+ strings, bytes are sequences of 0..255, and  *)
(* every other Python/JSON value is a tagged record (see PyStr, PyDict).   *)
(* A call that can raise returns [exc |-> <exception name>, val |-> ...],  *)
(* with exc = "None" when it returns normally.                             *)
(***************************************************************************)
EXTENDS Integers, Sequences, FiniteSets, TLC

VARIABLES
    sv,                 \* signature round: secret, body, header and the verdict
    cached_secret_key,  \* SecretService._cached_secret_key
    queue,              \* message bodies the Queue has accepted, in order
    uuid_counter,       \* how many log_ids uuid4 has handed out
    now,                \* the receiver's clock, in microseconds
    rcv,                \* the receiver's last invocation: event, environment, response
    store,              \* webhook_logs: log_id -> row
    proc,               \* the processor's last invocation: request, Store outcomes, response
    logs                \* the logs API's last invocation: event, Store outcome, response

vars == <<sv, cached_secret_key, queue, uuid_counter, now, rcv, store, proc, logs>>

(***************************************************************************)
(* Bounds of the model.                                                    *)
(***************************************************************************)
\* bytes of the modelled digest (SHA-256 has 32)
DigestLen == 2

\* invocations of the receiver in one behaviour
MaxRequests == 1

\* messages in one batch of the trigger (the deployment delivers up to 10)
MaxBatch == 2

\* ticks of the receiver's clock in one behaviour
MaxClock == 1

\* microseconds in one tick of the clock
TickMicros == 500000

(***************************************************************************)
(* Python str, bytes and exceptions.                                       *)
(***************************************************************************)
\* printable ASCII, U+0020..U+005F and U+0061..U+007E
AsciiLow == " !\"#$%&'()*+,-./0123456789:;<=>?@ABCDEFGHIJKLMNOPQRSTUVWXYZ[\\]^_"

AsciiHigh == "abcdefghijklmnopqrstuvwxyz{|}~"

Ch(s, i) == SubSeq(s, i, i)

AsciiLowChars == {Ch(AsciiLow, i) : i \in 1..Len(AsciiLow)}

AsciiHighChars == {Ch(AsciiHigh, i) : i \in 1..Len(AsciiHigh)}

AsciiChars == AsciiLowChars \cup AsciiHighChars

\* the code point of a character: ASCII from the tables, U+00E9 for the one
\* non-ASCII character of the model
Ord(c) == IF c \in AsciiLowChars
          THEN 31 + (CHOOSE i \in 1..Len(AsciiLow) : Ch(AsciiLow, i) = c)
          ELSE IF c \in AsciiHighChars
          THEN 96 + (CHOOSE i \in 1..Len(AsciiHigh) : Ch(AsciiHigh, i) = c)
          ELSE 233

\* s[i-1:j], as Python slices: cut at the end of s
Slice(s, i, j) == SubSeq(s, i, IF j > Len(s) THEN Len(s) ELSE j)

IsAsciiStr(s) == \A i \in 1..Len(s) : Ch(s, i) \in AsciiChars

Ok(v) == [exc |-> "None", val |-> v]

Raise(e, v) == [exc |-> e, val |-> v]

\* str.encode("utf-8"): one byte below U+0080, two bytes below U+0800
Utf8Char(c) == IF Ord(c) < 128 THEN <<Ord(c)>>
               ELSE <<192 + (Ord(c) \div 64), 128 + (Ord(c) % 64)>>

RECURSIVE Utf8(_)
Utf8(s) ==
    IF s = "" THEN <<>>
    ELSE IF Len(s) = 1 THEN Utf8Char(s)
    ELSE Utf8(SubSeq(s, 1, Len(s) \div 2)) \o Utf8(SubSeq(s, (Len(s) \div 2) + 1, Len(s)))

PyStr(s) == [t |-> "str", s |-> s, kids |-> <<>>]

PyNone == [t |-> "NoneType", s |-> "", kids |-> <<>>]

PyInt(digits) == [t |-> "int", s |-> digits, kids |-> <<>>]

PyList(items) == [t |-> "list", s |-> "", kids |-> [i \in 1..Len(items) |-> [k |-> "", v |-> items[i]]]]

\* a dict, as its items in insertion order
PyDict(pairs) == [t |-> "dict", s |-> "", kids |-> pairs]

\* body.encode("utf-8") on whatever the event holds as body
Encode(v) == IF v.t = "str" THEN Ok(Utf8(v.s)) ELSE Raise("AttributeError", <<>>)

(***************************************************************************)
(* HMAC-SHA256.  hashlib.sha256 is modelled by a DigestLen-byte iterated   *)
(* hash; hmac.new keeps its two-pass keyed construction over it.           *)
(***************************************************************************)
\* a digest byte is below Lane
Lane == 251

\* what absorbing a run of bytes does to a digest byte h, under the
\* multiplier m: h * mul + add.  Absorbing one byte b takes h to h * m + b + 1.
RECURSIVE Absorb(_, _)
Absorb(m, bytes) ==
    IF bytes = <<>> THEN [mul |-> 1, add |-> 0]
    ELSE IF Len(bytes) = 1 THEN [mul |-> m, add |-> (bytes[1] + 1) % Lane]
    ELSE LET l == Absorb(m, SubSeq(bytes, 1, Len(bytes) \div 2))
             r == Absorb(m, SubSeq(bytes, (Len(bytes) \div 2) + 1, Len(bytes)))
         IN [mul |-> (l.mul * r.mul) % Lane, add |-> (l.add * r.mul + r.add) % Lane]

\* the digest: byte i is what the bytes leave of 7 under the multiplier 30 + i
Sha256(bytes) ==
    [i \in 1..DigestLen |-> LET run == Absorb(30 + i, bytes)
                            IN (7 * run.mul + run.add) % Lane]

HmacSha256(key, msg) ==
    Sha256([i \in 1..Len(key) |-> (key[i] + 92) % 256]
           \o Sha256([i \in 1..Len(key) |-> (key[i] + 54) % 256] \o msg))

HexDigits == "0123456789abcdef"

RECURSIVE HexDigest(_)
HexDigest(bytes) ==
    IF bytes = <<>> THEN ""
    ELSE Ch(HexDigits, (Head(bytes) \div 16) + 1)
         \o Ch(HexDigits, (Head(bytes) % 16) + 1)
         \o HexDigest(Tail(bytes))

SigPrefix == "sha256="

PrefixLen == 7

StartsWith(s, p) == Len(s) >= Len(p) /\ SubSeq(s, 1, Len(p)) = p

\* faulty variant: the hex digest without its "sha256=" tag
generate_signature_bare(payload, secret_key) ==
    HexDigest(HmacSha256(Utf8(secret_key), Utf8(payload)))

\* generate_signature.py: "sha256=" + hexdigest
generate_signature(payload, secret_key) ==
    SigPrefix \o HexDigest(HmacSha256(Utf8(secret_key), Utf8(payload)))

\* hmac.compare_digest on two str: TypeError unless both are ASCII
compare_digest(a, b) ==
    IF IsAsciiStr(a) /\ IsAsciiStr(b) THEN Ok(a = b) ELSE Raise("TypeError", FALSE)

\* the try block of validate_signature
ValidateTry(body, signature_header, secret_key) ==
    LET expected_signature == SubSeq(signature_header, PrefixLen + 1, Len(signature_header))
        encoded == Encode(body)
    IN IF encoded.exc # "None" THEN Raise(encoded.exc, FALSE)
       ELSE compare_digest(HexDigest(HmacSha256(Utf8(secret_key), encoded.val)),
                           expected_signature)

\* faulty variant: no except around the try block
ValidateTryUncaught(body, signature_header, secret_key) ==
    ValidateTry(body, signature_header, secret_key)

\* the try block with its except: any exception becomes False
ValidateTryCaught(body, signature_header, secret_key) ==
    LET r == ValidateTry(body, signature_header, secret_key)
    IN IF r.exc # "None" THEN Ok(FALSE) ELSE r

validate_signature(body, signature_header, secret_key) ==
    IF signature_header = "" \/ ~StartsWith(signature_header, SigPrefix)
    THEN Ok(FALSE)
    ELSE ValidateTryCaught(body, signature_header, secret_key)

\* faulty variant: the characters a == b reads, which stops at the first
\* place where the two differ
VisitsOfEquals(a, b) ==
    IF \E i \in 1..Len(b) : i > Len(a) \/ Ch(a, i) # Ch(b, i)
    THEN CHOOSE i \in 1..Len(b) :
             /\ i > Len(a) \/ Ch(a, i) # Ch(b, i)
             /\ \A j \in 1..(i - 1) : j <= Len(a) /\ Ch(a, j) = Ch(b, j)
    ELSE Len(b)

\* the characters hmac.compare_digest(a, b) reads of b: every one, wherever
\* a and b differ and whatever the length of a
VisitsOfCompareDigest(a, b) == Len(b)

\* the characters the comparison of validate_signature reads: none when the
\* function returns or raises before it compares
ValidateVisits(body, signature_header, secret_key) ==
    IF signature_header = "" \/ ~StartsWith(signature_header, SigPrefix) THEN 0
    ELSE IF ValidateTry(body, signature_header, secret_key).exc # "None" THEN 0
    ELSE VisitsOfCompareDigest(HexDigest(HmacSha256(Utf8(secret_key), Encode(body).val)),
                               SubSeq(signature_header, PrefixLen + 1, Len(signature_header)))

(***************************************************************************)
(* json.loads and json.dumps, on the JSON the model's inputs use: objects, *)
(* arrays, strings, integers, null, true, false, spaces between tokens.    *)
(***************************************************************************)
PyBool(b) == [t |-> "bool", s |-> IF b THEN "True" ELSE "False", kids |-> <<>>]

ParseFail == [ok |-> FALSE, val |-> PyNone, next |-> 0]

Parsed(v, i) == [ok |-> TRUE, val |-> v, next |-> i]

RECURSIVE SkipWs(_, _)
SkipWs(s, i) == IF i <= Len(s) /\ Ch(s, i) = " " THEN SkipWs(s, i + 1) ELSE i

Digits == {"0", "1", "2", "3", "4", "5", "6", "7", "8", "9"}

RECURSIVE ScanDigits(_, _)
ScanDigits(s, i) == IF i <= Len(s) /\ Ch(s, i) \in Digits THEN ScanDigits(s, i + 1) ELSE i

\* the backslashes that stand in a row right before index j, from i on
RECURSIVE BackslashRun(_, _, _)
BackslashRun(s, i, j) ==
    IF j > i /\ Ch(s, j - 1) = "\\" THEN 1 + BackslashRun(s, i, j - 1) ELSE 0

\* a backslash that opens an escape, not one that is escaped itself
OpensEscape(s, i, p) == Ch(s, p) = "\\" /\ BackslashRun(s, i, p) % 2 = 0

\* what the character at p of a string literal that began at i stands for:
\* itself, the character its escape names, nothing when it is the rest of
\* an escape; ok is FALSE at an escape json does not know
Unescape(s, i, p) ==
    IF OpensEscape(s, i, p)
    THEN IF Ch(s, p + 1) \in {"\"", "\\", "/"} THEN [ok |-> TRUE, s |-> Ch(s, p + 1)]
         ELSE IF Slice(s, p + 1, p + 5) = "u00e9" THEN [ok |-> TRUE, s |-> "é"]
         ELSE [ok |-> FALSE, s |-> ""]
    ELSE IF \E q \in (IF p - 5 < i THEN i ELSE p - 5)..(p - 1) :
                /\ q + 1 = p \/ Ch(s, q + 1) = "u"
                /\ OpensEscape(s, i, q)
    THEN [ok |-> TRUE, s |-> ""]
    ELSE [ok |-> TRUE, s |-> Ch(s, p)]

\* the characters of the literal from a to b, a quarter at a time
RECURSIVE Unescaped(_, _, _, _)
Unescaped(s, i, a, b) ==
    IF a >= b THEN (IF a = b THEN Unescape(s, i, a).s ELSE "")
    ELSE LET q1 == a + ((b - a) \div 4)
             q2 == a + ((b - a) \div 2)
             q3 == a + ((3 * (b - a)) \div 4)
         IN (Unescaped(s, i, a, q1) \o Unescaped(s, i, q1 + 1, q2))
            \o (Unescaped(s, i, q2 + 1, q3) \o Unescaped(s, i, q3 + 1, b))

\* a quote that no backslash escapes
ClosingQuote(s, i, j) == Ch(s, j) = "\"" /\ BackslashRun(s, i, j) % 2 = 0

\* the string literal that began after the quote at i - 1 and closes at j
StringLiteral(s, i, j) ==
    IF \A p \in i..(j - 1) : Ch(s, p) # "\\" THEN Parsed(PyStr(SubSeq(s, i, j - 1)), j + 1)
    ELSE IF \E p \in i..(j - 1) : ~Unescape(s, i, p).ok THEN ParseFail
    ELSE Parsed(PyStr(Unescaped(s, i, i, j - 1)), j + 1)

\* a string literal after its opening quote at i - 1: up to the first quote
\* that no backslash escapes
ParseStringBody(s, i) ==
    IF \A q \in i..Len(s) : ~ClosingQuote(s, i, q) THEN ParseFail
    ELSE StringLiteral(s, i, CHOOSE q \in i..Len(s) :
                                 /\ ClosingQuote(s, i, q)
                                 /\ \A m \in i..(q - 1) : ~ClosingQuote(s, i, m))

ParseNumber(s, i) ==
    LET first == IF Ch(s, i) = "-" THEN i + 1 ELSE i
        last == ScanDigits(s, first)
    IN IF last = first THEN ParseFail
       ELSE IF Ch(s, first) = "0" THEN Parsed(PyInt(SubSeq(s, i, first)), first + 1)
       ELSE Parsed(PyInt(SubSeq(s, i, last - 1)), last)

\* a key set again keeps its place and takes the new value, as in a dict
DictSet(pairs, key, v) ==
    IF \E i \in 1..Len(pairs) : pairs[i].k = key
    THEN [i \in 1..Len(pairs) |-> IF pairs[i].k = key THEN [k |-> key, v |-> v] ELSE pairs[i]]
    ELSE Append(pairs, [k |-> key, v |-> v])

RECURSIVE ParseValue(_, _)
RECURSIVE ParseMembers(_, _, _)
RECURSIVE ParseElements(_, _, _)

\* the character at i, "" past the end of the text
At(s, i) == IF i <= Len(s) THEN Ch(s, i) ELSE ""

\* a member whose key and value are parsed: then "," or "}"
MemberEnd(s, pairs, key, v) ==
    LET e == SkipWs(s, v.next)
        got == DictSet(pairs, key.val.s, v.val)
    IN IF v.ok /\ At(s, e) \in {"}", ","}
       THEN (IF At(s, e) = "}" THEN Parsed(PyDict(got), e + 1) ELSE ParseMembers(s, e + 1, got))
       ELSE ParseFail

\* a member whose key is parsed: a colon, a value
MemberValue(s, pairs, key) ==
    LET ci == SkipWs(s, key.next)
    IN IF key.ok /\ At(s, ci) = ":"
       THEN MemberEnd(s, pairs, key, ParseValue(s, ci + 1))
       ELSE ParseFail

\* after "{" or ",": a key, a colon, a value, then "," or "}"
ParseMembers(s, i, pairs) ==
    LET ki == SkipWs(s, i)
    IN IF At(s, ki) = "\"" THEN MemberValue(s, pairs, ParseStringBody(s, ki + 1))
       ELSE ParseFail

\* an element that is parsed: then "," or "]"
ElementEnd(s, items, v) ==
    LET e == SkipWs(s, v.next)
        got == Append(items, v.val)
    IN IF v.ok /\ At(s, e) \in {"]", ","}
       THEN (IF At(s, e) = "]" THEN Parsed(PyList(got), e + 1) ELSE ParseElements(s, e + 1, got))
       ELSE ParseFail

\* after "[" or ",": a value, then "," or "]"
ParseElements(s, i, items) == ElementEnd(s, items, ParseValue(s, i))

ParseValue(s, i0) ==
    LET i == SkipWs(s, i0)
        c == At(s, i)
        k == SkipWs(s, i + 1)
    IN CASE c = "{" -> IF At(s, k) = "}" THEN Parsed(PyDict(<<>>), k + 1)
                       ELSE ParseMembers(s, i + 1, <<>>)
         [] c = "[" -> IF At(s, k) = "]" THEN Parsed(PyList(<<>>), k + 1)
                       ELSE ParseElements(s, i + 1, <<>>)
         [] c = "\"" -> ParseStringBody(s, i + 1)
         [] c \in Digits \cup {"-"} -> ParseNumber(s, i)
         [] c = "n" /\ Slice(s, i, i + 3) = "null" -> Parsed(PyNone, i + 4)
         [] c = "t" /\ Slice(s, i, i + 3) = "true" -> Parsed(PyBool(TRUE), i + 4)
         [] c = "f" /\ Slice(s, i, i + 4) = "false" -> Parsed(PyBool(FALSE), i + 5)
         [] OTHER -> ParseFail

\* the parsed value r, unless data follows it in s
WholeText(s, r) ==
    IF r.ok /\ SkipWs(s, r.next) = Len(s) + 1 THEN Ok(r.val)
    ELSE Raise("JSONDecodeError", PyNone)

\* json.loads(s): the value, or JSONDecodeError (also on data after the value)
json_loads(s) == WholeText(s, ParseValue(s, 1))

\* a str between quotes, as json.dumps writes it (ensure_ascii)
JsonEscapeChar(c) == IF c \in {"\"", "\\"} THEN "\\" \o c
                     ELSE IF c \in AsciiChars THEN c
                     ELSE "\\u00e9"

\* every character escaped, a quarter of the str at a time
RECURSIVE JsonEscape(_)
JsonEscape(s) ==
    IF Len(s) <= 1 THEN (IF s = "" THEN "" ELSE JsonEscapeChar(s))
    ELSE LET q1 == Len(s) \div 4
             q2 == Len(s) \div 2
             q3 == (3 * Len(s)) \div 4
         IN (JsonEscape(SubSeq(s, 1, q1)) \o JsonEscape(SubSeq(s, q1 + 1, q2)))
            \o (JsonEscape(SubSeq(s, q2 + 1, q3)) \o JsonEscape(SubSeq(s, q3 + 1, Len(s))))

RECURSIVE json_dumps(_)
RECURSIVE DumpItems(_, _, _)

\* the items of a list or dict, joined by ", "
DumpItems(kids, i, keyed) ==
    IF i > Len(kids) THEN ""
    ELSE (IF i > 1 THEN ", " ELSE "")
         \o (IF keyed THEN "\"" \o JsonEscape(kids[i].k) \o "\": " ELSE "")
         \o json_dumps(kids[i].v)
         \o DumpItems(kids, i + 1, keyed)

json_dumps(v) ==
    IF v.t = "str" THEN "\"" \o JsonEscape(v.s) \o "\""
    ELSE IF v.t = "int" THEN v.s
    ELSE IF v.t = "NoneType" THEN "null"
    ELSE IF v.t = "bool" THEN (IF v.s = "True" THEN "true" ELSE "false")
    ELSE IF v.t = "list" THEN "[" \o DumpItems(v.kids, 1, FALSE) \o "]"
    ELSE "{" \o DumpItems(v.kids, 1, TRUE) \o "}"

HasKey(d, key) == \E i \in 1..Len(d.kids) : d.kids[i].k = key

\* d.get(key, default) on a dict d
DictGet(d, key, default) ==
    IF HasKey(d, key)
    THEN d.kids[CHOOSE i \in 1..Len(d.kids) : d.kids[i].k = key].v
    ELSE default

(***************************************************************************)
(* str helpers of the handlers.                                            *)
(***************************************************************************)
LowerChar(c) == IF Ord(c) >= 65 /\ Ord(c) <= 90 THEN Ch(AsciiHigh, Ord(c) - 64) ELSE c

\* str.lower()
RECURSIVE Lower(_)
Lower(s) ==
    IF s = "" THEN ""
    ELSE IF Len(s) = 1 THEN LowerChar(s)
    ELSE Lower(SubSeq(s, 1, Len(s) \div 2)) \o Lower(SubSeq(s, (Len(s) \div 2) + 1, Len(s)))

\* str.replace(old, new): every occurrence, left to right
RECURSIVE Replace(_, _, _)
Replace(s, old, new) ==
    LET found == {i \in 1..(Len(s) - Len(old) + 1) : SubSeq(s, i, i + Len(old) - 1) = old}
        first == CHOOSE i \in found : \A j \in found : i <= j
    IN IF found = {} THEN s
       ELSE SubSeq(s, 1, first - 1) \o new
            \o Replace(SubSeq(s, first + Len(old), Len(s)), old, new)

\* str(n) for n >= 0
RECURSIVE Decimal(_)
Decimal(n) == IF n < 10 THEN Ch("0123456789", n + 1)
              ELSE Decimal(n \div 10) \o Ch("0123456789", (n % 10) + 1)

RECURSIVE ZeroPad(_, _)
ZeroPad(s, width) == IF Len(s) >= width THEN s ELSE ZeroPad("0" \o s, width)

\* str(v) of a header value: a str is itself, None is "None"
PyStrOf(v) == IF v.t = "str" THEN v.s
              ELSE IF v.t = "NoneType" THEN "None"
              ELSE IF v.t \in {"int", "bool"} THEN v.s
              ELSE json_dumps(v)

MicrosPerSecond == 1000000

\* datetime.isoformat() of a UTC time, `us` microseconds into the model's
\* minute: the fraction is left out when it is zero
isoformat(us) ==
    "2026-01-01T00:00:" \o ZeroPad(Decimal((us \div MicrosPerSecond) % 60), 2)
    \o (IF us % MicrosPerSecond = 0 THEN ""
        ELSE "." \o ZeroPad(Decimal(us % MicrosPerSecond), 6))
    \o "+00:00"

\* str(uuid.uuid4()): the n-th identifier handed out, never one handed out before
uuid4(n) == "id-" \o Decimal(n)

(***************************************************************************)
(* webhook-receiver/handler.py                                             *)
(***************************************************************************)
\* the value Lockbox holds under SECRET_KEY
LockboxSecret == "topsecret"

\* what the Lockbox call does: answers, or raises ValueError (no secret id,
\* no SECRET_KEY entry) or an SDK error
LockboxOutcomes == {"None", "ValueError", "RpcError"}

\* what enqueue_message does: returns, or raises ValueError (no queue URL)
\* or a client error (client creation or send_message)
YmqOutcomes == {"None", "ValueError", "ClientError"}

build_response(status_code, body) ==
    [statusCode |-> status_code,
     headers |-> PyDict(<<[k |-> "Content-Type", v |-> PyStr("application/json")]>>),
     body |-> json_dumps(body)]

ErrorBody(text) == PyDict(<<[k |-> "error", v |-> PyStr(text)]>>)

\* SecretService.get_secret_key: the cached key, else the Lockbox call
get_secret_key(cached, lockbox) ==
    IF cached # "" THEN Ok(cached)
    ELSE IF lockbox = "None" THEN Ok(LockboxSecret)
    ELSE Raise(lockbox, "")

\* QueueService.enqueue_message: val is what the Queue accepted
enqueue_message(message, ymq) ==
    IF ymq = "None" THEN Ok(<<json_dumps(message)>>) ELSE Raise(ymq, <<>>)

\* what one invocation did, besides its response
NoResponse == [statusCode |-> 0, headers |-> PyDict(<<>>), body |-> ""]

Started(cached) ==
    [response |-> NoResponse, raised |-> "None", verified |-> "not reached",
     parsed |-> "not reached", log_id |-> "", enqueue_calls |-> 0, sent |-> <<>>,
     cache |-> cached, uuids |-> 0]

\* faulty variant: the Queue's exception is swallowed and receipt acknowledged
HandlerEnqueueAcks(run, message, ymq) ==
    [run EXCEPT !.enqueue_calls = 1,
                !.sent = enqueue_message(message, ymq).val,
                !.response = build_response(200, PyDict(<<[k |-> "status", v |-> PyStr("received")],
                                                          [k |-> "log_id", v |-> PyStr(run.log_id)]>>))]

\* step 7
HandlerEnqueue(run, message, ymq) ==
    LET r == enqueue_message(message, ymq)
    IN [run EXCEPT !.enqueue_calls = 1,
                   !.sent = r.val,
                   !.response =
                       IF r.exc = "None"
                       THEN build_response(200, PyDict(<<[k |-> "status", v |-> PyStr("received")],
                                                         [k |-> "log_id", v |-> PyStr(run.log_id)]>>))
                       ELSE build_response(500, ErrorBody("Failed to enqueue message"))]

\* the message of step 6
Envelope(log_id, timestamp, payload, signature_header) ==
    PyDict(<<[k |-> "log_id", v |-> PyStr(log_id)],
             [k |-> "received_at", v |-> PyStr(timestamp)],
             [k |-> "event_type", v |-> DictGet(payload, "event_type", PyStr("unknown"))],
             [k |-> "payload", v |-> payload],
             [k |-> "signature", v |-> PyStr(signature_header)]>>)

\* step 5 after json.loads(body), and step 6
HandlerPrepare(run, loaded, signature_header, env) ==
    LET payload == loaded.val
        log_id == uuid4(env.uuid_counter + 1)
        timestamp == Replace(isoformat(env.now), "+00:00", "Z")
    IN IF loaded.exc # "None"
       THEN [run EXCEPT !.parsed = loaded.exc,
                        !.response = build_response(400, ErrorBody("Invalid JSON payload"))]
       ELSE IF payload.t # "dict"
       THEN [run EXCEPT !.parsed = payload.t, !.raised = "AttributeError"]
       ELSE HandlerEnqueue([run EXCEPT !.parsed = payload.t, !.uuids = 1, !.log_id = log_id],
                           Envelope(log_id, timestamp, payload, signature_header), env.ymq)

\* steps 5 and 6
HandlerParse(run, body, signature_header, env) ==
    HandlerPrepare(run, json_loads(body.s), signature_header, env)

\* faulty variant: a request without a signature header is let through
HandlerValidateLenient(run, body, signature_header, secret_key, env) ==
    IF signature_header # "" /\ ~validate_signature(body, signature_header, secret_key).val
    THEN [run EXCEPT !.verified = "False",
                     !.response = build_response(401, ErrorBody("Invalid signature"))]
    ELSE HandlerParse([run EXCEPT !.verified = "True"], body, signature_header, env)

\* faulty variant: the body is parsed before the signature is checked
HandlerValidateParseFirst(run, body, signature_header, secret_key, env) ==
    IF body.t = "str" /\ json_loads(body.s).exc # "None"
    THEN [run EXCEPT !.parsed = "JSONDecodeError",
                     !.response = build_response(400, ErrorBody("Invalid JSON payload"))]
    ELSE IF ~validate_signature(body, signature_header, secret_key).val
    THEN [run EXCEPT !.verified = "False",
                     !.response = build_response(401, ErrorBody("Invalid signature"))]
    ELSE HandlerParse([run EXCEPT !.verified = "True"], body, signature_header, env)

\* step 4
HandlerValidate(run, body, signature_header, secret_key, env) ==
    IF ~validate_signature(body, signature_header, secret_key).val
    THEN [run EXCEPT !.verified = "False",
                     !.response = build_response(401, ErrorBody("Invalid signature"))]
    ELSE HandlerParse([run EXCEPT !.verified = "True"], body, signature_header, env)

\* steps 2 and 3
HandlerSecret(run, body, signature_header, env) ==
    LET secret == get_secret_key(run.cache, env.lockbox)
    IN IF secret.exc = "ValueError"
       THEN [run EXCEPT !.response = build_response(500, ErrorBody("Configuration error"))]
       ELSE IF secret.exc # "None"
       THEN [run EXCEPT !.response = build_response(500, ErrorBody("Internal setup error"))]
       ELSE HandlerValidate([run EXCEPT !.cache = secret.val], body, signature_header,
                            secret.val, env)

\* {k.lower(): v for k, v in headers.items()}
RECURSIVE LowerKeys(_, _)
LowerKeys(pairs, acc) ==
    IF pairs = <<>> THEN acc
    ELSE LowerKeys(Tail(pairs), DictSet(acc, Lower(Head(pairs).k), Head(pairs).v))

\* str(headers_lower.get("x-webhook-signature", ""))
SignatureHeader(headers) ==
    PyStrOf(DictGet(PyDict(LowerKeys(headers.kids, <<>>)), "x-webhook-signature", PyStr("")))

\* step 1
HandlerExtract(run, event, env) ==
    LET headers == DictGet(event, "headers", PyDict(<<>>))
        body == DictGet(event, "body", PyStr(""))
        signature_header == SignatureHeader(headers)
    IN IF headers.t # "dict" THEN [run EXCEPT !.raised = "AttributeError"]
       ELSE HandlerSecret(run, body, signature_header, env)

\* the outermost except, on what the try block did
HandlerExcept(run) ==
    IF run.raised # "None"
    THEN [run EXCEPT !.response = build_response(500, ErrorBody("Internal server error"))]
    ELSE run

\* the handler: its try block, then its outermost except
handler(event, env) == HandlerExcept(HandlerExtract(Started(env.cached), event, env))

(***************************************************************************)
(* webhook-processor/main.py                                               *)
(***************************************************************************)
\* what the Store does with one UPSERT: commits, or raises
StoreOutcomes == {"None", "YdbError"}

IsoPrefix == "2026-01-01T00:00:"

AllDigits(s) == s # "" /\ \A i \in 1..Len(s) : Ch(s, i) \in Digits

RECURSIVE ToInt(_)
ToInt(s) == IF s = "" THEN 0
            ELSE ToInt(SubSeq(s, 1, Len(s) - 1)) * 10
                 + (CHOOSE d \in 0..9 : Ch("0123456789", d + 1) = Ch(s, Len(s)))

\* datetime.fromisoformat, then the timestamp in microseconds: val is the
\* time in microseconds into the model's minute
fromisoformat_us(s) ==
    LET rest == SubSeq(s, Len(IsoPrefix) + 1, Len(s))
        seconds == Slice(rest, 1, 2)
        tail == SubSeq(rest, 3, Len(rest))
    IN IF ~StartsWith(s, IsoPrefix) \/ Len(rest) < 2 \/ ~AllDigits(seconds)
       THEN Raise("ValueError", 0)
       ELSE IF tail = "+00:00" THEN Ok(ToInt(seconds) * MicrosPerSecond)
       ELSE IF Len(tail) = 13 /\ Ch(tail, 1) = "." /\ AllDigits(SubSeq(tail, 2, 7))
               /\ SubSeq(tail, 8, 13) = "+00:00"
       THEN Ok(ToInt(seconds) * MicrosPerSecond + ToInt(SubSeq(tail, 2, 7)))
       ELSE Raise("ValueError", 0)

\* WebhookPayload(...): log_id and received_at are str, event_type and
\* signature are str or None, payload is a dict
WebhookPayload(log_id, received_at, event_type, payload, signature) ==
    IF /\ log_id.t = "str"
       /\ received_at.t = "str"
       /\ event_type.t \in {"str", "NoneType"}
       /\ payload.t = "dict"
       /\ signature.t \in {"str", "NoneType"}
    THEN Ok([log_id |-> log_id.s, received_at |-> received_at.s, event_type |-> event_type,
             payload |-> payload, signature |-> signature])
    ELSE Raise("ValidationError",
               [log_id |-> "", received_at |-> "", event_type |-> PyNone,
                payload |-> PyDict(<<>>), signature |-> PyNone])

\* x or default, for a str-or-None x
OrElse(x, default) == IF x.t = "str" /\ x.s # "" THEN x.s ELSE default

Untouched(table) == [table |-> table, upserts |-> 0]

\* faulty variant: received_at is stamped anew at every insert
RowStampedAnew(webhook_data, received_at_timestamp, clock) ==
    [log_id |-> webhook_data.log_id,
     received_at |-> clock,
     event_type |-> OrElse(webhook_data.event_type, "unknown"),
     payload_json |-> json_dumps(webhook_data.payload),
     signature |-> OrElse(webhook_data.signature, ""),
     processed_at |-> clock]

\* the values the UPSERT is executed with
RowOf(webhook_data, received_at_timestamp, clock) ==
    [log_id |-> webhook_data.log_id,
     received_at |-> received_at_timestamp,
     event_type |-> OrElse(webhook_data.event_type, "unknown"),
     payload_json |-> json_dumps(webhook_data.payload),
     signature |-> OrElse(webhook_data.signature, ""),
     processed_at |-> clock]

\* the primary key of webhook_logs: the Store keeps one row per log_id
PrimaryKey(row) == row.log_id

\* UPSERT INTO webhook_logs: the row takes the place of the row of its key,
\* or is added
Upsert(table, row) ==
    [id \in DOMAIN table \cup {PrimaryKey(row)} |->
        IF id = PrimaryKey(row) THEN row ELSE table[id]]

\* WebhookRepository._insert_tx: val is TRUE after the UPSERT committed
insert_tx(db, webhook_data, outcome, clock) ==
    LET dt == fromisoformat_us(Replace(webhook_data.received_at, "Z", "+00:00"))
    IN IF dt.exc = "ValueError" THEN [exc |-> "None", val |-> FALSE, db |-> db]
       ELSE IF outcome # "None"
       THEN [exc |-> outcome, val |-> FALSE, db |-> [db EXCEPT !.upserts = @ + 1]]
       ELSE [exc |-> "None", val |-> TRUE,
             db |-> [table |-> Upsert(db.table, RowOf(webhook_data, dt.val, clock)),
                     upserts |-> db.upserts + 1]]

\* an except that turns whatever r raised into the return value v
Caught(r, v) == IF r.exc # "None" THEN [r EXCEPT !.exc = "None", !.val = v] ELSE r

\* faulty variant: a Store exception is taken for a committed insert
insert_log_optimistic(db, webhook_data, outcome, clock) ==
    Caught(insert_tx(db, webhook_data, outcome, clock), TRUE)

\* WebhookRepository.insert_log: whatever the transaction raises becomes False
insert_log(db, webhook_data, outcome, clock) ==
    Caught(insert_tx(db, webhook_data, outcome, clock), FALSE)

\* the try block after WebhookPayload(...)
ProcessWebhook(db, webhook, outcome, clock) ==
    IF webhook.exc # "None" THEN [exc |-> webhook.exc, val |-> FALSE, db |-> db]
    ELSE insert_log(db, webhook.val, outcome, clock)

\* the try block after json.loads(message_body)
ProcessLoaded(db, loaded, outcome, clock) ==
    LET data == loaded.val
    IN IF loaded.exc # "None" THEN [exc |-> loaded.exc, val |-> FALSE, db |-> db]
       ELSE IF data.t # "dict" THEN [exc |-> "AttributeError", val |-> FALSE, db |-> db]
       ELSE ProcessWebhook(db,
                           WebhookPayload(DictGet(data, "log_id", PyNone),
                                          DictGet(data, "received_at", PyNone),
                                          DictGet(data, "event_type", PyNone),
                                          DictGet(data, "payload", PyDict(<<>>)),
                                          DictGet(data, "signature", PyNone)),
                           outcome, clock)

\* process_single_message's try block
ProcessSingleTry(db, message_body, outcome, clock) ==
    ProcessLoaded(db,
                  IF message_body.t = "str" THEN json_loads(message_body.s)
                  ELSE Raise("TypeError", PyNone),
                  outcome, clock)

\* the excepts of process_single_message: every exception becomes False
ProcessSingleExcept(r) ==
    [exc |-> "None", val |-> r.exc = "None" /\ r.val, db |-> r.db, why |-> r.exc]

\* process_single_message
process_single_message(db, message_body, outcome, clock) ==
    ProcessSingleExcept(ProcessSingleTry(db, message_body, outcome, clock))

\* the try block of the loop body, for one msg
LoopBodyTry(db, msg, outcome, clock) ==
    LET details == DictGet(msg, "details", PyDict(<<>>))
        message_meta == DictGet(details, "message", PyDict(<<>>))
        message_body == DictGet(message_meta, "body", PyStr("{}"))
    IN IF msg.t # "dict" \/ details.t # "dict" \/ message_meta.t # "dict"
       THEN [exc |-> "AttributeError", val |-> FALSE, db |-> db, why |-> "AttributeError"]
       ELSE process_single_message(db, message_body, outcome, clock)

\* what the try block's result r adds to the two counters, when an
\* exception of it counts `onraise` errors and leaves the loop as `raised`
Counted(r, raised, onraise) ==
    [raised |-> raised,
     success |-> IF r.exc = "None" /\ r.val THEN 1 ELSE 0,
     error |-> IF r.exc # "None" THEN onraise ELSE IF r.val THEN 0 ELSE 1,
     db |-> r.db, why |-> r.why]

\* the exception r leaves the loop body with, when nothing catches it
Escaping(r) == Counted(r, r.exc, 0)

\* faulty variant: no except in the loop body
LoopBodyUncaught(db, msg, outcome, clock) ==
    Escaping(LoopBodyTry(db, msg, outcome, clock))

\* faulty variant: the except of the loop body forgets error_count += 1
LoopBodyDropsError(db, msg, outcome, clock) ==
    Counted(LoopBodyTry(db, msg, outcome, clock), "None", 0)

\* the loop body with its except: what it adds to the two counters
LoopBody(db, msg, outcome, clock) ==
    Counted(LoopBodyTry(db, msg, outcome, clock), "None", 1)

\* the elements a for loop takes from messages: the items of a list, the
\* keys of a dict, the characters of a str
IterItems(messages) ==
    IF messages.t = "list" THEN [i \in 1..Len(messages.kids) |-> messages.kids[i].v]
    ELSE IF messages.t = "dict" THEN [i \in 1..Len(messages.kids) |-> PyStr(messages.kids[i].k)]
    ELSE [i \in 1..Len(messages.s) |-> PyStr(Ch(messages.s, i))]

\* acc after one more message, whose loop body did r
Tally(acc, r) ==
    [raised |-> r.raised,
     success_count |-> acc.success_count + r.success,
     error_count |-> acc.error_count + r.error,
     db |-> r.db,
     fates |-> Append(acc.fates,
                      [ok |-> r.success = 1, why |-> r.why,
                       upserts |-> r.db.upserts - acc.db.upserts])]

RECURSIVE LoopStopsAtError(_, _, _, _, _)
RECURSIVE Loop(_, _, _, _, _)

\* faulty variant of LoopOn: the loop breaks at the first message that fails
LoopOnUntilError(items, outcomes, i, clock, next) ==
    IF next.raised # "None" \/ ~next.fates[Len(next.fates)].ok THEN next
    ELSE LoopStopsAtError(items, outcomes, i + 1, clock, next)

\* faulty variant: the loop breaks at the first message that fails
LoopStopsAtError(items, outcomes, i, clock, acc) ==
    IF i > Len(items) THEN acc
    ELSE LoopOnUntilError(items, outcomes, i, clock,
                          Tally(acc, LoopBody(acc.db, items[i], outcomes[i], clock)))

\* the loop goes on to message i + 1, unless message i left it by an exception
LoopOn(items, outcomes, i, clock, next) ==
    IF next.raised # "None" THEN next
    ELSE Loop(items, outcomes, i + 1, clock, next)

\* the for loop from its i-th message on; acc holds the two counters, the
\* Store and what became of each message so far
Loop(items, outcomes, i, clock, acc) ==
    IF i > Len(items) THEN acc
    ELSE LoopOn(items, outcomes, i, clock,
                Tally(acc, LoopBody(acc.db, items[i], outcomes[i], clock)))

ProcessingResult(status, processed, errors) ==
    [http |-> 200, status |-> status, processed |-> processed, errors |-> errors]

\* raise HTTPException(status_code=500, ...)
HTTPException(db, why) ==
    [response |-> [http |-> 500, status |-> "", processed |-> 0, errors |-> 0],
     raised |-> why, db |-> db, messages |-> <<>>, fates |-> <<>>]

\* body.get("messages", []) and len(messages) on what request.json() gave:
\* the messages the loop will go over, or what the extraction raises
MessagesOf(body) ==
    LET messages == DictGet(body.val, "messages", PyList(<<>>))
    IN IF body.exc # "None" THEN Raise(body.exc, <<>>)
       ELSE IF body.val.t # "dict" THEN Raise("AttributeError", <<>>)
       ELSE IF messages.t \notin {"list", "dict", "str"} THEN Raise("TypeError", <<>>)
       ELSE Ok(IterItems(messages))

\* await request.json(), then the messages of the body
ExtractMessages(request_text) == MessagesOf(json_loads(request_text))

\* after the loop: the ProcessingResult, or HTTPException when an exception
\* left the loop
BatchComplete(items, done) ==
    IF done.raised # "None"
    THEN [HTTPException(done.db, done.raised) EXCEPT !.messages = items, !.fates = done.fates]
    ELSE [response |-> ProcessingResult("success", done.success_count, done.error_count),
          raised |-> "None", db |-> done.db, messages |-> items, fates |-> done.fates]

\* process_ymq_trigger after the extraction; messages is what the loop went
\* over, fates what became of each
ProcessMessages(extracted, table, outcomes, clock) ==
    LET db == Untouched(table)
        items == extracted.val
    IN IF extracted.exc # "None" THEN HTTPException(db, extracted.exc)
       ELSE IF Len(items) = 0
       THEN [response |-> ProcessingResult("success", 0, 0), raised |-> "None",
             db |-> db, messages |-> <<>>, fates |-> <<>>]
       ELSE BatchComplete(items,
                          Loop(items, outcomes, 1, clock,
                               [raised |-> "None", success_count |-> 0, error_count |-> 0,
                                db |-> db, fates |-> <<>>]))

\* process_ymq_trigger on the request's body text, with the outcome the
\* Store has for the UPSERT of each message
process_ymq_trigger(request_text, table, outcomes, clock) ==
    ProcessMessages(ExtractMessages(request_text), table, outcomes, clock)

(***************************************************************************)
(* logs-api/handler.py                                                     *)
(***************************************************************************)
\* what YDBDriver.get_driver does on a cold start: connects, or raises
\* ValueError (Config.validate) or a connection error
DriverOutcomes == {"None", "ValueError", "ConnectionError"}

\* what the SELECT of get_logs does: returns rows, or raises
QueryOutcomes == {"None", "YdbError"}

\* seconds from the epoch to the model's minute, 2026-01-01T00:00:00Z
MinuteStart == 1767225600

\* bool(x) of a Timestamp column holding `us` microseconds into the model's
\* minute: an int is falsy when it is zero
TimestampTruthy(us) == MinuteStart + (us \div MicrosPerSecond) # 0 \/ us % MicrosPerSecond # 0

\* str.strip(), of spaces
RECURSIVE Strip(_)
Strip(s) == IF s # "" /\ Ch(s, 1) = " " THEN Strip(Tail(s))
            ELSE IF s # "" /\ Ch(s, Len(s)) = " " THEN Strip(SubSeq(s, 1, Len(s) - 1))
            ELSE s

\* the digits of an int literal: digits, single underscores between them
IntDigits(d) ==
    /\ d # ""
    /\ Ch(d, 1) \in Digits
    /\ Ch(d, Len(d)) \in Digits
    /\ \A i \in 1..Len(d) : Ch(d, i) \in Digits \cup {"_"}
    /\ \A i \in 1..(Len(d) - 1) : ~(Ch(d, i) = "_" /\ Ch(d, i + 1) = "_")

\* int(x) of a literal t without the spaces around it
IntLiteral(t) ==
    LET signed == t # "" /\ Ch(t, 1) \in {"+", "-"}
        digits == IF signed THEN Tail(t) ELSE t
        n == ToInt(Replace(digits, "_", ""))
    IN IF ~IntDigits(digits) THEN Raise("ValueError", 0)
       ELSE IF Ch(t, 1) = "-" THEN Ok(0 - n)
       ELSE Ok(n)

\* int(x): of a str its literal, spaces around it stripped; ValueError when
\* the str is no literal, TypeError when x is None, a list or a dict
py_int(x) ==
    IF x.t = "str" THEN IntLiteral(Strip(x.s))
    ELSE IF x.t = "int" THEN IntLiteral(x.s)
    ELSE Raise("TypeError", 0)

Min(a, b) == IF a < b THEN a ELSE b

Max(a, b) == IF a > b THEN a ELSE b

DefaultLimit == 50

MaxLimit == 100

\* faulty variant: the limit is taken as given
LimitAsGiven(parsed) == IF parsed.exc = "ValueError" THEN Ok(DefaultLimit) ELSE parsed

\* max(1, min(limit, 100)), and the except ValueError around it
ClampLimit(parsed) ==
    IF parsed.exc = "ValueError" THEN Ok(DefaultLimit)
    ELSE IF parsed.exc # "None" THEN parsed
    ELSE Ok(Max(1, Min(parsed.val, MaxLimit)))

\* the limit of the request: int(query_params.get("limit", "50")), clamped
ParseLimit(query_params) ==
    ClampLimit(py_int(DictGet(query_params, "limit", PyStr(Decimal(DefaultLimit)))))

\* YDBDriver.get_driver: the driver of an earlier invocation, else a new one
get_driver(connected, outcome) ==
    IF connected THEN Ok(TRUE)
    ELSE IF outcome = "None" THEN Ok(TRUE)
    ELSE Raise(outcome, FALSE)

\* LogRepository._ts_to_iso
ts_to_iso(timestamp_us) == Replace(isoformat(timestamp_us), "+00:00", "Z")

\* LogRepository._decode_str, on a str or None
decode_str(value) == IF value.t = "NoneType" THEN "" ELSE PyStrOf(value)

\* log_entry of _parse_results for row r, given json.loads(r.payload_json)
LogEntry(r, loaded) ==
    IF loaded.exc # "None" THEN Raise(loaded.exc, PyNone)
    ELSE Ok(PyDict(<<[k |-> "log_id", v |-> PyStr(decode_str(PyStr(r.log_id)))],
                     [k |-> "received_at", v |-> PyStr(ts_to_iso(r.received_at))],
                     [k |-> "event_type", v |-> PyStr(decode_str(PyStr(r.event_type)))],
                     [k |-> "payload_json", v |-> loaded.val],
                     [k |-> "signature", v |-> PyStr(decode_str(PyStr(r.signature)))],
                     [k |-> "processed_at",
                      v |-> IF TimestampTruthy(r.processed_at)
                            THEN PyStr(ts_to_iso(r.processed_at)) ELSE PyNone]>>))

\* one turn of the loop of _parse_results
ParseRow(r) ==
    LogEntry(r, IF r.payload_json # "" THEN json_loads(r.payload_json) ELSE Ok(PyDict(<<>>)))

\* (logs, len(logs)) of the entries, or the first exception among them
ParsedRows(entries) ==
    IF \E i \in 1..Len(entries) : entries[i].exc # "None"
    THEN Raise(entries[CHOOSE i \in 1..Len(entries) :
                           /\ entries[i].exc # "None"
                           /\ \A j \in 1..(i - 1) : entries[j].exc = "None"].exc,
               [logs |-> PyList(<<>>), total |-> 0])
    ELSE Ok([logs |-> PyList([i \in 1..Len(entries) |-> entries[i].val]),
             total |-> Len(entries)])

\* LogRepository._parse_results
parse_results(rows) == ParsedRows([i \in 1..Len(rows) |-> ParseRow(rows[i])])

\* the orders ORDER BY received_at DESC may give the rows of the table:
\* rows of equal received_at come in any order
RowOrders(table) ==
    {o \in [1..Cardinality(DOMAIN table) -> DOMAIN table] :
        /\ \A i, j \in DOMAIN o : i # j => o[i] # o[j]
        /\ \A i \in 1..(Len(o) - 1) : table[o[i]].received_at >= table[o[i + 1]].received_at}

\* the first `limit` of the matching rows, in the Store's order
FirstRows(table, matching, limit) ==
    [i \in 1..Min(limit, Len(matching)) |-> table[matching[i]]]

\* the rows the SELECT returns: those WHERE event_type = $event_type when
\* the filter is there, ORDER BY received_at DESC LIMIT $limit
Select(table, order, limit, filtered, event_type) ==
    FirstRows(table,
              SelectSeq(order, LAMBDA id : ~filtered \/ table[id].event_type = event_type),
              limit)

\* `if event_type:` for a str or None
Truthy(x) == x.t = "str" /\ x.s # ""

DropNewest(rows) == SubSeq(rows, 2, Len(rows))

\* faulty variant: the query leaves the newest row out
get_logs_stale(env, limit, event_type) ==
    IF env.query # "None" THEN Raise(env.query, [logs |-> PyList(<<>>), total |-> 0])
    ELSE parse_results(DropNewest(Select(env.table, env.order, limit + 1, Truthy(event_type),
                                         event_type.s)))

\* LogRepository.get_logs
get_logs(env, limit, event_type) ==
    IF env.query # "None" THEN Raise(env.query, [logs |-> PyList(<<>>), total |-> 0])
    ELSE parse_results(Select(env.table, env.order, limit, Truthy(event_type), event_type.s))

logs_build_response(status_code, body) ==
    [statusCode |-> status_code,
     headers |-> PyDict(<<[k |-> "Content-Type", v |-> PyStr("application/json")],
                          [k |-> "Access-Control-Allow-Origin", v |-> PyStr("*")]>>),
     body |-> json_dumps(body)]

\* what one invocation of the logs API did, besides its response: limit is
\* the limit it gave the Store, 0 when it gave none
LogsStarted(connected) ==
    [response |-> NoResponse, raised |-> "None", connected |-> connected, limit |-> 0]

\* the two excepts of the handler
LogsExcept(run) ==
    IF run.raised = "None" THEN run
    ELSE IF run.raised \in {"ValueError", "JSONDecodeError"}
    THEN [run EXCEPT !.response =
              logs_build_response(500, ErrorBody("Database configuration error"))]
    ELSE [run EXCEPT !.response = logs_build_response(500, ErrorBody("Internal server error"))]

\* step 3, on what get_logs gave
LogsRespond(run, result) ==
    IF result.exc # "None" THEN [run EXCEPT !.raised = result.exc]
    ELSE [run EXCEPT !.response =
              logs_build_response(200, PyDict(<<[k |-> "logs", v |-> result.val.logs],
                                                [k |-> "total",
                                                 v |-> PyInt(Decimal(result.val.total))]>>))]

\* step 2
LogsGetData(run, limit, event_type, env) ==
    LET driver == get_driver(run.connected, env.driver)
    IN IF driver.exc # "None" THEN [run EXCEPT !.raised = driver.exc]
       ELSE LogsRespond([run EXCEPT !.connected = TRUE, !.limit = limit],
                        get_logs(env, limit, event_type))

\* step 1 after the limit was parsed
LogsParsed(run, query_params, limit, env) ==
    IF limit.exc # "None" THEN [run EXCEPT !.raised = limit.exc]
    ELSE LogsGetData(run, limit.val, DictGet(query_params, "event_type", PyNone), env)

\* step 1, on event.get("queryStringParameters", {}) or {}
LogsParse(run, query_params, env) ==
    IF query_params.t # "dict" THEN [run EXCEPT !.raised = "AttributeError"]
    ELSE LogsParsed(run, query_params, ParseLimit(query_params), env)

\* x or {}
OrEmptyDict(x) ==
    IF x.t = "NoneType" \/ (x.t \in {"dict", "list"} /\ x.kids = <<>>)
       \/ (x.t = "str" /\ x.s = "") THEN PyDict(<<>>)
    ELSE x

\* the handler of the logs API: its try block, then its excepts
logs_handler(event, env) ==
    LogsExcept(LogsParse(LogsStarted(env.connected),
                         OrEmptyDict(DictGet(event, "queryStringParameters", PyDict(<<>>))),
                         env))

(***************************************************************************)
(* The variables before anything has run.                                  *)
(***************************************************************************)
SigIdle == [stage |-> "idle", secret |-> "", body |-> "", header |-> "",
            via |-> "nobody", result |-> Ok(FALSE), visits |-> 0]

RcvIdle == [seq |-> 0, event |-> PyNone, lockbox |-> "None", ymq |-> "None",
            run |-> Started("")]

ProcIdle == [stage |-> "idle", request |-> "", outcomes |-> <<>>,
             run |-> HTTPException(Untouched(<<>>), "None")]

LogsIdle == [stage |-> "idle", event |-> PyNone, driver |-> "None", query |-> "None",
             order |-> <<>>, table |-> <<>>, run |-> LogsStarted(FALSE)]

(***************************************************************************)
(* The receiver's invocations: any event of Events, under any outcome of   *)
(* the Lockbox and Queue calls.                                            *)
(***************************************************************************)
ReceiverBodies == {"{\"event_type\":\"test\"}", "{ }", "[]", "{"}

HeaderNames == {"X-Webhook-Signature", "x-webhook-signature"}

\* signature header values sent along with body b
HeaderValues(b) ==
    {generate_signature(b, LockboxSecret), generate_signature(b, "k1"),
     "sha256=deadbeef", "", "sha256=é"}

Event(headers, body) == PyDict(<<[k |-> "headers", v |-> headers], [k |-> "body", v |-> body]>>)

OneHeader(name, value) == PyDict(<<[k |-> name, v |-> value]>>)

Events ==
    UNION {{Event(OneHeader(n, PyStr(h)), PyStr(b)) : n \in HeaderNames, h \in HeaderValues(b)} :
               b \in ReceiverBodies}
    \cup {Event(PyDict(<<>>), PyStr(b)) : b \in ReceiverBodies}
    \cup {Event(PyNone, PyStr("{ }")),
          Event(OneHeader("X-Webhook-Signature", PyNone), PyStr("{ }")),
          Event(OneHeader("X-Webhook-Signature", PyStr(generate_signature("{ }", LockboxSecret))), PyNone),
          PyDict(<<[k |-> "headers",
                    v |-> OneHeader("X-Webhook-Signature", PyStr(generate_signature("", LockboxSecret)))]>>)}

\* one invocation of handler on an event of `events`; the Queue's outcome is
\* chosen only when the invocation calls enqueue_message
ReceiveOneOf(events) ==
    /\ rcv.seq < MaxRequests
    /\ \E event \in events :
       \E lockbox \in IF cached_secret_key # "" THEN {"None"} ELSE LockboxOutcomes :
       \E env \in {[lockbox |-> lockbox, ymq |-> "None", cached |-> cached_secret_key,
                    uuid_counter |-> uuid_counter, now |-> now * TickMicros]} :
       \E smooth \in {handler(event, env)} :
       \E ymq \in IF smooth.enqueue_calls = 0 THEN {"None"} ELSE YmqOutcomes :
       \E run \in {IF ymq = "None" THEN smooth ELSE handler(event, [env EXCEPT !.ymq = ymq])} :
           /\ rcv' = [seq |-> rcv.seq + 1, event |-> event, lockbox |-> lockbox,
                      ymq |-> ymq, run |-> run]
           /\ cached_secret_key' = run.cache
           /\ queue' = queue \o run.sent
           /\ uuid_counter' = uuid_counter + run.uuids
    /\ UNCHANGED <<sv, now, store, proc, logs>>

Receive == ReceiveOneOf(Events)

Tick ==
    /\ now < MaxClock
    /\ now' = now + 1
    /\ UNCHANGED <<sv, cached_secret_key, queue, uuid_counter, rcv, store, proc, logs>>

InitReceiver ==
    /\ sv = SigIdle
    /\ cached_secret_key \in {"", LockboxSecret}
    /\ queue = <<>>
    /\ uuid_counter = 0
    /\ now = 0
    /\ rcv = RcvIdle
    /\ store = <<>>
    /\ proc = ProcIdle
    /\ logs = LogsIdle

NextReceiver == Receive \/ Tick

SpecReceiver == InitReceiver /\ [][NextReceiver]_vars

(***************************************************************************)
(* Signature round: sign a body, let the header be tampered with on the    *)
(* wire, validate what arrives.                                            *)
(***************************************************************************)
Secrets == {"", "k1", "topsecret"}

SigBodies == {"", "{\"event_type\":\"test\"}", "{\"event_type\":\"tesu\"}", "é"}

\* characters an attacker may put into a header
TamperChars == {"0", "f", "g", "F", "=", "é"}

ForeignHeaders == {"", "sha256=", "sha256=deadbeef", "deadbeef", "sha25=00", "SHA256=00"}

UpperHex(c) == IF c \in {"a", "b", "c", "d", "e", "f"}
               THEN Ch("ABCDEF", Ord(c) - 96) ELSE c

RECURSIVE Upper(_)
Upper(s) == IF s = "" THEN "" ELSE UpperHex(Ch(s, 1)) \o Upper(Tail(s))

SigChoose ==
    /\ sv.stage = "idle"
    /\ \E k \in Secrets, b \in SigBodies :
           sv' = [SigIdle EXCEPT !.stage = "chosen", !.secret = k, !.body = b]
    /\ UNCHANGED <<cached_secret_key, queue, uuid_counter, now, rcv, store, proc, logs>>

SigSign ==
    /\ sv.stage = "chosen"
    /\ sv' = [sv EXCEPT !.stage = "delivered", !.via = "signer",
                        !.header = generate_signature(sv.body, sv.secret)]
    /\ UNCHANGED <<cached_secret_key, queue, uuid_counter, now, rcv, store, proc, logs>>

\* a header that did not come from the signer at all
SigForge ==
    /\ sv.stage = "chosen"
    /\ \E h \in ForeignHeaders \cup {generate_signature(b, k) : b \in SigBodies, k \in Secrets} :
           sv' = [sv EXCEPT !.stage = "delivered", !.via = "forger", !.header = h]
    /\ UNCHANGED <<cached_secret_key, queue, uuid_counter, now, rcv, store, proc, logs>>

\* one edit of the signed header: a character replaced, dropped or added,
\* the prefix removed, the digest upper-cased
SigTamper ==
    /\ sv.stage = "delivered"
    /\ sv.via = "signer"
    /\ \E h \in {SubSeq(sv.header, 1, i - 1) \o c \o SubSeq(sv.header, i + 1, Len(sv.header)) :
                     i \in 1..Len(sv.header), c \in TamperChars}
              \cup {SubSeq(sv.header, 1, i - 1) \o SubSeq(sv.header, i + 1, Len(sv.header)) :
                     i \in 1..Len(sv.header)}
              \cup {sv.header \o c : c \in TamperChars}
              \cup {SubSeq(sv.header, PrefixLen + 1, Len(sv.header)),
                    SigPrefix \o Upper(SubSeq(sv.header, PrefixLen + 1, Len(sv.header)))} :
           sv' = [sv EXCEPT !.via = "tamperer", !.header = h]
    /\ UNCHANGED <<cached_secret_key, queue, uuid_counter, now, rcv, store, proc, logs>>

SigValidate ==
    /\ sv.stage = "delivered"
    /\ sv' = [sv EXCEPT !.stage = "validated",
                        !.result = validate_signature(PyStr(sv.body), sv.header, sv.secret),
                        !.visits = ValidateVisits(PyStr(sv.body), sv.header, sv.secret)]
    /\ UNCHANGED <<cached_secret_key, queue, uuid_counter, now, rcv, store, proc, logs>>

InitSig ==
    /\ sv = SigIdle
    /\ cached_secret_key = ""
    /\ queue = <<>>
    /\ uuid_counter = 0
    /\ now = 0
    /\ rcv = RcvIdle
    /\ store = <<>>
    /\ proc = ProcIdle
    /\ logs = LogsIdle

NextSig == SigChoose \/ SigSign \/ SigForge \/ SigTamper \/ SigValidate

SpecSig == InitSig /\ [][NextSig]_vars

(***************************************************************************)
(* The processor's invocation: one request of Requests, under any outcome  *)
(* of the Store's UPSERTs, on a Store that is empty or holds an earlier    *)
(* row.                                                                    *)
(***************************************************************************)
EnvelopeA ==
    Envelope("id-1", "2026-01-01T00:00:00Z", json_loads("{\"event_type\":\"test\"}").val,
             generate_signature("{\"event_type\":\"test\"}", LockboxSecret))

EnvelopeB ==
    Envelope("id-2", "2026-01-01T00:00:00.500000Z", PyDict(<<>>),
             generate_signature("{ }", LockboxSecret))

\* message bodies: two envelopes of the receiver, a cut-off text, an
\* object without log_id, an envelope whose received_at is no timestamp
MessageBodies ==
    {json_dumps(EnvelopeA), json_dumps(EnvelopeB), "{\"log_id\": \"id-3\"",
     "{\"event_type\": \"test\"}",
     "{\"log_id\": \"id-4\", \"received_at\": \"yesterday\"}"}

TriggerMessage(i, body) ==
    PyDict(<<[k |-> "details",
              v |-> PyDict(<<[k |-> "message",
                              v |-> PyDict(<<[k |-> "message_id", v |-> PyStr("m" \o Decimal(i))],
                                             [k |-> "body", v |-> PyStr(body)]>>)]>>)]>>)

\* the trigger's request for a batch of message bodies
BatchRequest(bodies) ==
    json_dumps(PyDict(<<[k |-> "messages",
                         v |-> PyList([i \in 1..Len(bodies) |-> TriggerMessage(i, bodies[i])])]>>))

Batches == UNION {[1..n -> MessageBodies] : n \in 0..MaxBatch}

\* requests that are no batch of message bodies
OddRequests ==
    {"{\"messages\": ", "[]", "{}", "{\"messages\": null}", "{\"messages\": 5}",
     "{\"messages\": \"ab\"}", "{\"messages\": {\"a\": 1}}", "{\"messages\": [1, {}]}",
     "{\"messages\": [{\"details\": 1}, {\"details\": {\"message\": {\"body\": []}}}]}",
     "{\"messages\": [{\"details\": {\"message\": {\"body\": \"[]\"}}}]}"}

Requests == {BatchRequest(b) : b \in Batches} \cup OddRequests

EmptyTable == [id \in {} |-> 0]

\* the Store before the invocation: empty, or holding the row of EnvelopeA
EarlierTables ==
    {EmptyTable,
     process_single_message(Untouched(EmptyTable), PyStr(json_dumps(EnvelopeA)), "None", 0).db.table}

\* the most messages a request of the model holds
MaxItems == MaxBatch + 2

\* one invocation of process_ymq_trigger on a request of `requests`; the
\* outcomes are chosen for the UPSERTs the invocation comes to make
TriggerOneOf(requests) ==
    /\ proc.stage = "idle"
    /\ \E request \in requests :
       \E extracted \in {ExtractMessages(request)} :
       \E smooth \in {ProcessMessages(extracted, store, [i \in 1..MaxItems |-> "None"],
                                      now * TickMicros)} :
       \E outcomes \in {o \in [1..Len(smooth.fates) -> StoreOutcomes] :
                           \A i \in 1..Len(smooth.fates) :
                               smooth.fates[i].upserts = 0 => o[i] = "None"} :
       \E run \in {ProcessMessages(extracted, store, outcomes, now * TickMicros)} :
           /\ proc' = [stage |-> "done", request |-> request, outcomes |-> outcomes, run |-> run]
           /\ store' = run.db.table
    /\ UNCHANGED <<sv, cached_secret_key, queue, uuid_counter, now, rcv, logs>>

Trigger == TriggerOneOf(Requests)

InitProcessor ==
    /\ sv = SigIdle
    /\ cached_secret_key = ""
    /\ queue = <<>>
    /\ uuid_counter = 0
    /\ now = 0
    /\ rcv = RcvIdle
    /\ store \in EarlierTables
    /\ proc = ProcIdle
    /\ logs = LogsIdle

NextProcessor == Trigger \/ Tick

SpecProcessor == InitProcessor /\ [][NextProcessor]_vars

(***************************************************************************)
(* The pipeline: webhooks arrive at the receiver, the trigger delivers the *)
(* Queue's messages to the processor.                                      *)
(***************************************************************************)
PipelineBodies ==
    {"{\"event_type\":\"test\"}", "{ }", "{\"event_type\": null}", "{\"event_type\": \"\"}"}

\* webhooks signed with the secret, and one that is not
PipelineEvents ==
    {Event(OneHeader("X-Webhook-Signature", PyStr(generate_signature(b, LockboxSecret))), PyStr(b)) :
         b \in PipelineBodies}
    \cup {Event(OneHeader("X-Webhook-Signature", PyStr("sha256=deadbeef")), PyStr("{ }"))}

Post == ReceiveOneOf(PipelineEvents)

\* the batches the trigger makes of the Queue's messages: all of them in
\* order, one of them possibly delivered once more
QueueBatches(q) == {q} \cup {Append(q, q[i]) : i \in 1..Len(q)}

Deliver ==
    /\ queue # <<>>
    /\ TriggerOneOf({BatchRequest(b) : b \in QueueBatches(queue)})

InitPipeline ==
    /\ sv = SigIdle
    /\ cached_secret_key \in {"", LockboxSecret}
    /\ queue = <<>>
    /\ uuid_counter = 0
    /\ now = 0
    /\ rcv = RcvIdle
    /\ store = EmptyTable
    /\ proc = ProcIdle
    /\ logs = LogsIdle

NextPipeline == Post \/ Deliver \/ Tick

SpecPipeline == InitPipeline /\ [][NextPipeline]_vars

(***************************************************************************)
(* The logs API: one batch goes through the processor, then one query      *)
(* through the logs API, under any outcome of the Store.                   *)
(***************************************************************************)
\* what arrives as ?limit=
LimitTexts == {"200", "0", "1", "2", "100", "101", "abc", "", "-3", " 7 ", "1.5", "1_0"}

\* what arrives as ?event_type=
EventTypeTexts == {"test", "", "unknown"}

QueryParameters ==
    {PyDict(<<>>)}
    \cup {PyDict(<<[k |-> "limit", v |-> PyStr(l)]>>) : l \in LimitTexts}
    \cup {PyDict(<<[k |-> "event_type", v |-> PyStr(e)]>>) : e \in EventTypeTexts}
    \cup {PyDict(<<[k |-> "limit", v |-> PyStr("1")], [k |-> "event_type", v |-> PyStr("unknown")]>>)}

\* the events of GET requests: without queryStringParameters, with null for
\* them, with a dict of str
LogsEvents ==
    {PyDict(<<>>), PyDict(<<[k |-> "queryStringParameters", v |-> PyNone]>>)}
    \cup {PyDict(<<[k |-> "queryStringParameters", v |-> q]>>) : q \in QueryParameters}

\* one invocation of the logs API's handler; the SELECT's outcome is chosen
\* only when the invocation comes to query the Store
Query ==
    /\ logs.stage = "idle"
    /\ proc.stage = "done"
    /\ \E event \in LogsEvents :
       \E driver \in IF logs.run.connected THEN {"None"} ELSE DriverOutcomes :
       \E order \in RowOrders(store) :
       \E env \in {[connected |-> logs.run.connected, driver |-> driver, query |-> "None",
                    table |-> store, order |-> order]} :
       \E smooth \in {logs_handler(event, env)} :
       \E query \in IF smooth.limit = 0 THEN {"None"} ELSE QueryOutcomes :
       \E run \in {IF query = "None" THEN smooth
                   ELSE logs_handler(event, [env EXCEPT !.query = query])} :
           logs' = [stage |-> "done", event |-> event, driver |-> driver, query |-> query,
                    order |-> order, table |-> store, run |-> run]
    /\ UNCHANGED <<sv, cached_secret_key, queue, uuid_counter, now, rcv, store, proc>>

\* batches with a malformed message between two envelopes, and shorter ones
LogBatches ==
    {<<>>}
    \cup {<<b>> : b \in MessageBodies}
    \cup {<<json_dumps(EnvelopeA), b, json_dumps(EnvelopeB)>> : b \in MessageBodies}

Fill == TriggerOneOf({BatchRequest(b) : b \in LogBatches})

\* the driver of a cold start, or of an earlier invocation
InitLogs ==
    /\ sv = SigIdle
    /\ cached_secret_key = ""
    /\ queue = <<>>
    /\ uuid_counter = 0
    /\ now = 0
    /\ rcv = RcvIdle
    /\ store \in EarlierTables
    /\ proc = ProcIdle
    /\ logs \in {LogsIdle, [LogsIdle EXCEPT !.run.connected = TRUE]}

NextLogs == Fill \/ Query \/ Tick

SpecLogs == InitLogs /\ [][NextLogs]_vars

(***************************************************************************)
(* Properties of the signature round (SpecSig).                            *)
(***************************************************************************)
\* C9: round trip: the header generate_signature makes for a body and a
\* secret is accepted by validate_signature for that body and secret.
C9_RoundTrip ==
    (sv.stage = "validated" /\ sv.via = "signer") => sv.result = Ok(TRUE)

C9_Witness ==
    /\ sv.stage = "validated"
    /\ sv.via = "signer"
    /\ sv.body = "{\"event_type\":\"test\"}"
    /\ sv.result.val

\* the header is the tag followed by the digest of this body under this secret
CorrectHeader ==
    /\ StartsWith(sv.header, SigPrefix)
    /\ SubSeq(sv.header, PrefixLen + 1, Len(sv.header))
           = HexDigest(HmacSha256(Utf8(sv.secret), Utf8(sv.body)))

\* C10: validate_signature fails closed: a header that is empty, lacks the
\* "sha256=" prefix, has a non-hex suffix or carries another digest than the
\* correct one is answered False, and no exception leaves the function.
C10_FailsClosed ==
    (sv.stage = "validated" /\ ~CorrectHeader) => sv.result = Ok(FALSE)

\* a header with the prefix and a suffix compare_digest cannot compare
C10_Witness ==
    /\ sv.stage = "validated"
    /\ StartsWith(sv.header, SigPrefix)
    /\ ~IsAsciiStr(sv.header)
    /\ sv.result = Ok(FALSE)

\* the digest the header should carry, and the one it carries
CorrectDigest == HexDigest(HmacSha256(Utf8(sv.secret), Utf8(sv.body)))

HeaderDigest == SubSeq(sv.header, PrefixLen + 1, Len(sv.header))

RcvHeaders == DictGet(rcv.event, "headers", PyDict(<<>>))

RcvBody == DictGet(rcv.event, "body", PyStr(""))

\* the request reached the signature check: it has headers and the secret
\* was there, cached or fetched
RcvChecked == rcv.seq > 0 /\ RcvHeaders.t = "dict" /\ rcv.run.cache # ""

RcvSignatureValid ==
    validate_signature(RcvBody, SignatureHeader(RcvHeaders), rcv.run.cache).val

RcvBodyIsJson == RcvBody.t = "str" /\ json_loads(RcvBody.s).exc = "None"

RcvStatus == rcv.run.response.statusCode

\* C1: one Queue send if the signature verified and the body parsed as
\* JSON, none in every other case.
C1_OneSendIffVerifiedAndParsed ==
    rcv.seq > 0 =>
        rcv.run.enqueue_calls
            = IF RcvChecked /\ RcvSignatureValid /\ RcvBodyIsJson THEN 1 ELSE 0

\* C2: with the secret available, a header validate_signature rejects gets
\* 401 and nothing is enqueued, whatever the body.
C2_BadSignatureIs401 ==
    (RcvChecked /\ ~RcvSignatureValid) =>
        /\ RcvStatus = 401
        /\ rcv.run.enqueue_calls = 0
        /\ rcv.run.sent = <<>>

\* the wrong digest of the example, on a body that is no JSON
C2_Witness ==
    /\ RcvChecked
    /\ SignatureHeader(RcvHeaders) = "sha256=deadbeef"
    /\ RcvBody = PyStr("{")
    /\ RcvStatus = 401

\* C3: the body is parsed only after the signature verified: 400 is
\* answered only to verified requests, and an invalid signature on a
\* malformed body gets 401.
C3_VerifyBeforeParse ==
    /\ (rcv.seq > 0 /\ rcv.run.parsed # "not reached") => (RcvChecked /\ RcvSignatureValid)
    /\ (rcv.seq > 0 /\ RcvStatus = 400) => (RcvChecked /\ RcvSignatureValid)
    /\ (RcvChecked /\ ~RcvSignatureValid /\ ~RcvBodyIsJson) => RcvStatus = 401

\* a verified request whose body is no JSON
C3_Witness ==
    /\ RcvChecked
    /\ RcvSignatureValid
    /\ ~RcvBodyIsJson
    /\ RcvStatus = 400

\* the log_id a JSON text carries
LogIdIn(text) == DictGet(json_loads(text).val, "log_id", PyNone)

\* C4: 200 with a log_id only after the Queue accepted the envelope that
\* carries this log_id; when the Queue does not accept the message the
\* answer is 500.
C4_AckOnlyAfterEnqueue ==
    /\ (rcv.seq > 0 /\ RcvStatus = 200) =>
           /\ rcv.ymq = "None"
           /\ Len(rcv.run.sent) = 1
           /\ queue # <<>>
           /\ queue[Len(queue)] = rcv.run.sent[1]
           /\ LogIdIn(rcv.run.response.body).t = "str"
           /\ LogIdIn(rcv.run.sent[1]) = LogIdIn(rcv.run.response.body)
    /\ (rcv.seq > 0 /\ rcv.ymq # "None") => (RcvStatus = 500 /\ rcv.run.sent = <<>>)

\* a verified, parsed request the Queue refuses
C4_Witness ==
    /\ RcvChecked
    /\ RcvSignatureValid
    /\ rcv.run.enqueue_calls = 1
    /\ rcv.ymq = "ClientError"
    /\ RcvStatus = 500

\* the secret was there (cached, or Lockbox answered) and the Queue took
\* what it was sent
RcvServicesUp == rcv.lockbox = "None" /\ rcv.ymq = "None"

\* C12: every response has status 200, 400, 401 or 500; 500 is returned
\* only when the secret retrieval or the Queue send failed; a request with
\* a valid signature and a body that parses as JSON is answered 200
\* whenever the secret and the Queue are available.  Stated of the events
\* that have a dict of headers.
C12_StatusCodes ==
    (rcv.seq > 0 /\ RcvHeaders.t = "dict") =>
        /\ RcvStatus \in {200, 400, 401, 500}
        /\ RcvStatus = 500 => ~RcvServicesUp
        /\ (RcvServicesUp /\ RcvChecked /\ RcvSignatureValid /\ RcvBodyIsJson) => RcvStatus = 200

\* the body is a JSON object
RcvBodyIsObject == RcvBodyIsJson /\ json_loads(RcvBody.s).val.t = "dict"

\* what holds of C12: with a dict of headers the only 500 under working
\* services is that of a verified body that is JSON but no object, and a
\* verified JSON object is answered 200
C12_StatusCodesOfObjects ==
    (rcv.seq > 0 /\ RcvHeaders.t = "dict") =>
        /\ RcvStatus \in {200, 400, 401, 500}
        /\ (RcvStatus = 500 /\ RcvServicesUp) =>
               (RcvSignatureValid /\ RcvBodyIsJson /\ ~RcvBodyIsObject)
        /\ (RcvServicesUp /\ RcvSignatureValid /\ RcvBodyIsObject) => RcvStatus = 200

(***************************************************************************)
(* Properties of the processor (SpecProcessor).                            *)
(***************************************************************************)
ProcDone == proc.stage = "done"

ProcResponse == proc.run.response

\* the messages of the batch
ProcItems == proc.run.messages

\* reading the batch out of the request throws
ExtractionThrows == ExtractMessages(proc.request).exc # "None"

ProcN == Len(ProcItems)

\* the message has the trigger's shape, with a str as body
Shaped(msg) ==
    /\ msg.t = "dict"
    /\ DictGet(msg, "details", PyNone).t = "dict"
    /\ DictGet(DictGet(msg, "details", PyNone), "message", PyNone).t = "dict"
    /\ DictGet(DictGet(DictGet(msg, "details", PyNone), "message", PyNone), "body", PyNone).t = "str"

BodyText(msg) ==
    DictGet(DictGet(DictGet(msg, "details", PyNone), "message", PyNone), "body", PyNone).s

\* a batch of message bodies whose every insert the Store accepts
ProcCleanBatch ==
    /\ ProcDone
    /\ ~ExtractionThrows
    /\ \A i \in 1..ProcN : Shaped(ProcItems[i])
    /\ \A i \in 1..Len(proc.outcomes) : proc.outcomes[i] = "None"

MalformedJson(text) == json_loads(text).exc # "None"

\* the text is an envelope: a JSON object whose fields WebhookPayload
\* accepts and whose received_at is a timestamp
ValidEnvelope(text) ==
    LET data == json_loads(text)
    IN /\ data.exc = "None"
       /\ data.val.t = "dict"
       /\ DictGet(data.val, "log_id", PyNone).t = "str"
       /\ DictGet(data.val, "received_at", PyNone).t = "str"
       /\ DictGet(data.val, "event_type", PyNone).t \in {"str", "NoneType"}
       /\ DictGet(data.val, "payload", PyDict(<<>>)).t = "dict"
       /\ DictGet(data.val, "signature", PyNone).t \in {"str", "NoneType"}
       /\ fromisoformat_us(Replace(DictGet(data.val, "received_at", PyNone).s,
                                   "Z", "+00:00")).exc = "None"

\* message i was counted as processed and its row is in the Store
Persisted(i) ==
    LET log_id == LogIdIn(BodyText(ProcItems[i])).s
    IN /\ proc.run.fates[i].ok
       /\ proc.run.fates[i].upserts = 1
       /\ log_id \in DOMAIN store
       /\ store[log_id].log_id = log_id

\* C5, as claimed: with K the number of messages whose body is malformed
\* JSON, processed = N-K, errors = K, and every other message is persisted.
C5_CountsByMalformedJson ==
    ProcCleanBatch =>
        LET bad == {i \in 1..ProcN : MalformedJson(BodyText(ProcItems[i]))}
        IN /\ ProcResponse.processed = ProcN - Cardinality(bad)
           /\ ProcResponse.errors = Cardinality(bad)
           /\ Len(proc.run.fates) = ProcN
           /\ \A i \in (1..ProcN) \ bad : Persisted(i)

\* C5, amended: with K the number of messages whose body is no valid
\* envelope (malformed JSON, no JSON object, log_id or received_at missing
\* or no string, a field of the wrong type, received_at no timestamp),
\* processed = N-K, errors = K, and every valid envelope is persisted,
\* wherever the K stand in the batch.
C5_CountsByValidEnvelope ==
    ProcCleanBatch =>
        LET bad == {i \in 1..ProcN : ~ValidEnvelope(BodyText(ProcItems[i]))}
        IN /\ ProcResponse.http = 200
           /\ ProcResponse.processed = ProcN - Cardinality(bad)
           /\ ProcResponse.errors = Cardinality(bad)
           /\ Len(proc.run.fates) = ProcN
           /\ \A i \in (1..ProcN) \ bad : Persisted(i)

\* a malformed message first, a valid envelope after it
C5_Witness ==
    /\ ProcCleanBatch
    /\ ProcN = 2
    /\ MalformedJson(BodyText(ProcItems[1]))
    /\ ValidEnvelope(BodyText(ProcItems[2]))
    /\ Persisted(2)
    /\ ProcResponse.processed = 1
    /\ ProcResponse.errors = 1

\* C6: every well-formed batch envelope is answered with status "success",
\* whatever became of its messages; the answer is HTTP 500 only when
\* reading the batch out of the request throws.
C6_SuccessUnlessExtractionThrows ==
    ProcDone =>
        IF ExtractionThrows
        THEN ProcResponse.http = 500 /\ proc.run.raised # "None"
        ELSE /\ ProcResponse.http = 200
             /\ ProcResponse.status = "success"
             /\ proc.run.raised = "None"

\* a batch all of whose messages failed, acknowledged
C6_Witness ==
    /\ ProcDone
    /\ ProcN >= 2
    /\ ProcResponse.status = "success"
    /\ ProcResponse.processed = 0
    /\ ProcResponse.errors = ProcN

\* C7: a Store failure on one message is caught and counted as one error
\* for this message; the messages after it are still parsed and tried
\* against the Store.
C7_StoreFailureIsOneError ==
    ProcDone =>
        \A i \in 1..Len(proc.outcomes) :
            proc.outcomes[i] = "YdbError" =>
                /\ ProcResponse.http = 200
                /\ proc.run.raised = "None"
                /\ Len(proc.run.fates) = ProcN
                /\ ~proc.run.fates[i].ok
                /\ proc.run.fates[i].upserts = 1
                /\ ProcResponse.errors = Cardinality({j \in 1..ProcN : ~proc.run.fates[j].ok})
                /\ \A j \in (i + 1)..ProcN :
                       (Shaped(ProcItems[j]) /\ ValidEnvelope(BodyText(ProcItems[j]))) =>
                           /\ proc.run.fates[j].upserts = 1
                           /\ proc.outcomes[j] = "None" => Persisted(j)

\* the Store fails on the first message and takes the second
C7_Witness ==
    /\ ProcDone
    /\ ProcN = 2
    /\ proc.outcomes = <<"YdbError", "None">>
    /\ ProcResponse.errors = 1
    /\ ProcResponse.processed = 1
    /\ Persisted(2)

\* C8: in an acknowledged batch processed + errors is the number of
\* messages, every message is counted in exactly one of the two, and
\* processed is the number of messages whose Store insert succeeded.
C8_CountsPartitionBatch ==
    (ProcDone /\ ProcResponse.http = 200) =>
        /\ ProcResponse.processed + ProcResponse.errors = ProcN
        /\ Len(proc.run.fates) = ProcN
        /\ ProcResponse.processed = Cardinality({i \in 1..ProcN : proc.run.fates[i].ok})
        /\ ProcResponse.errors = Cardinality({i \in 1..ProcN : ~proc.run.fates[i].ok})
        /\ \A i \in 1..ProcN :
               proc.run.fates[i].ok <=>
                   (proc.run.fates[i].upserts = 1 /\ proc.outcomes[i] = "None")
        /\ proc.run.db.upserts - Cardinality({i \in 1..ProcN : proc.outcomes[i] = "YdbError"})
               = ProcResponse.processed

\* a batch with a stored message, a malformed one and a Store failure
C8_Witness ==
    /\ ProcDone
    /\ ProcResponse.http = 200
    /\ ProcResponse.processed >= 1
    /\ ProcResponse.errors >= 1
    /\ \E i \in 1..ProcN : ~proc.run.fates[i].ok /\ proc.run.fates[i].upserts = 0

\* the two rows agree in all but processed_at
SameButProcessedAt(r1, r2) == [r1 EXCEPT !.processed_at = 0] = [r2 EXCEPT !.processed_at = 0]

\* the deliveries of the batch that the Store committed
Committed == {i \in 1..Len(proc.run.fates) :
                  proc.run.fates[i].upserts = 1 /\ proc.outcomes[i] = "None"}

\* a row of the Store stays, the same in all but processed_at
RowsStay ==
    \A id \in DOMAIN store :
        id \in DOMAIN store' /\ SameButProcessedAt(store[id], store'[id])

\* C16: redelivery is idempotent on the Store's key set: each delivery of
\* an envelope that persists is counted as processed, the Store holds
\* exactly one row for its log_id, and a row that was there before has the
\* same log_id, received_at, event_type, payload and signature afterwards;
\* only processed_at may differ.
C16_RedeliveryKeepsRow ==
    /\ []((ProcDone /\ ProcResponse.http = 200) =>
            /\ ProcResponse.processed = Cardinality(Committed)
            /\ \A i \in Committed :
                   /\ proc.run.fates[i].ok
                   /\ Cardinality({id \in DOMAIN store :
                                       PyStr(store[id].log_id) = LogIdIn(BodyText(ProcItems[i]))}) = 1)
    /\ [][RowsStay]_vars

\* the same envelope came twice in one batch, a tick after it was
\* received: both deliveries are counted, the row is one
C16_Witness ==
    /\ ProcDone
    /\ ProcN = 2
    /\ BodyText(ProcItems[1]) = BodyText(ProcItems[2])
    /\ Committed = {1, 2}
    /\ ProcResponse.processed = 2
    /\ DOMAIN store = {"id-1"}
    /\ store["id-1"].processed_at > store["id-1"].received_at

(***************************************************************************)
(* Properties of the pipeline (SpecPipeline).                              *)
(***************************************************************************)
\* the i-th envelope the receiver enqueued
Enqueued(i) == json_loads(queue[i]).val

\* the row carries the fields of envelope e: its log_id, its received_at
\* (read back as the logs API reads a timestamp), its event_type, its payload
\* (read back from payload_json) and its signature
RowCarries(row, e) ==
    /\ PyStr(row.log_id) = DictGet(e, "log_id", PyNone)
    /\ PyStr(ts_to_iso(row.received_at)) = DictGet(e, "received_at", PyNone)
    /\ PyStr(row.event_type) = DictGet(e, "event_type", PyNone)
    /\ json_loads(row.payload_json) = Ok(DictGet(e, "payload", PyNone))
    /\ PyStr(row.signature) = DictGet(e, "signature", PyNone)

\* every log_id is the receiver's: the Queue's envelopes have log_ids of
\* their own, each one that uuid4 handed out, and every row is filed under
\* the log_id of an envelope of the Queue
LogIdsAreTheReceivers ==
    /\ \A i \in 1..Len(queue) :
           \E n \in 1..uuid_counter : DictGet(Enqueued(i), "log_id", PyNone) = PyStr(uuid4(n))
    /\ \A i, j \in 1..Len(queue) :
           i # j => DictGet(Enqueued(i), "log_id", PyNone) # DictGet(Enqueued(j), "log_id", PyNone)
    /\ \A id \in DOMAIN store :
           /\ store[id].log_id = id
           /\ \E i \in 1..Len(queue) : DictGet(Enqueued(i), "log_id", PyNone) = PyStr(id)

\* C11: the row the processor writes for a log_id carries the same log_id,
\* received_at, event_type, payload and signature as the envelope the
\* receiver enqueued, and the log_id is assigned once, by the receiver only.
C11_RowCarriesEnvelope ==
    /\ LogIdsAreTheReceivers
    /\ \A id \in DOMAIN store :
           \A i \in 1..Len(queue) :
               DictGet(Enqueued(i), "log_id", PyNone) = PyStr(id) => RowCarries(store[id], Enqueued(i))

\* the envelope's event_type is a str that is not empty
NamedEventType(e) == Truthy(DictGet(e, "event_type", PyNone))

\* what holds of C11: the rows of envelopes whose event_type is a str that
\* is not empty carry the envelope; of the others, all but the event_type
C11_RowCarriesNamedEnvelope ==
    /\ LogIdsAreTheReceivers
    /\ \A id \in DOMAIN store :
           \A i \in 1..Len(queue) :
               DictGet(Enqueued(i), "log_id", PyNone) = PyStr(id) =>
                   IF NamedEventType(Enqueued(i)) THEN RowCarries(store[id], Enqueued(i))
                   ELSE RowCarries([store[id] EXCEPT !.event_type = ""],
                                   [Enqueued(i) EXCEPT !.kids[3].v = PyStr("")])

\* a row of an envelope with a named event_type
C11_NamedRow ==
    \E id \in DOMAIN store : \E i \in 1..Len(queue) :
        /\ DictGet(Enqueued(i), "log_id", PyNone) = PyStr(id)
        /\ NamedEventType(Enqueued(i))

(***************************************************************************)
(* Properties of the logs API after a batch (SpecLogs).                    *)
(***************************************************************************)
LogsDone == logs.stage = "done"

LogsStatus == logs.run.response.statusCode

\* the query parameters of the request
LogsQueryParameters ==
    OrEmptyDict(DictGet(logs.event, "queryStringParameters", PyDict(<<>>)))

\* the request asks for no event_type
Unfiltered == ~Truthy(DictGet(LogsQueryParameters, "event_type", PyNone))

\* the entries of "logs" in the response's body
ReturnedLogs == DictGet(json_loads(logs.run.response.body).val, "logs", PyList(<<>>)).kids

\* the log_ids of the entries that have a processed_at
WithProcessedAt(entries) ==
    {entries[k].v.kids[1].v.s :
         k \in {k \in 1..Len(entries) :
                    /\ entries[k].v.kids[1].k = "log_id"
                    /\ DictGet(entries[k].v, "processed_at", PyNone).t = "str"}}

\* the log_ids the response returns, each with a processed_at
ReturnedIds == WithProcessedAt(ReturnedLogs)

\* the log_ids of the messages the batch counted as processed
ProcessedIds ==
    {LogIdIn(BodyText(ProcItems[i])).s :
         i \in {i \in 1..Len(proc.run.fates) : proc.run.fates[i].ok}}

\* the query was answered from the Store as the batch left it, without a
\* filter, and the limit it gave the Store covers the rows
AnsweredWithinLimit ==
    /\ ProcDone
    /\ LogsDone
    /\ LogsStatus = 200
    /\ logs.table = store
    /\ Unfiltered
    /\ Cardinality(DOMAIN store) <= logs.run.limit

\* every one of ids has a row with a processed_at, and is returned
StoredAndReturned(ids) ==
    /\ \A id \in ids : id \in DOMAIN store /\ TimestampTruthy(store[id].processed_at)
    /\ AnsweredWithinLimit => ids \subseteq ReturnedIds

\* the batch [A, malformed, B], every insert accepted by the Store
BatchAMalformedB ==
    /\ ProcDone
    /\ ProcN = 3
    /\ \A i \in 1..3 : Shaped(ProcItems[i]) /\ proc.outcomes[i] = "None"
    /\ BodyText(ProcItems[1]) = json_dumps(EnvelopeA)
    /\ BodyText(ProcItems[3]) = json_dumps(EnvelopeB)
    /\ MalformedJson(BodyText(ProcItems[2]))

\* the rows that are new in the Store are those of messages counted as
\* processed
NewRowsAreProcessed ==
    \A id \in (DOMAIN store') \ (DOMAIN store) :
        \E i \in 1..Len(proc'.run.fates) :
            /\ proc'.run.fates[i].ok
            /\ LogIdIn(BodyText(proc'.run.messages[i])).s = id

\* C13: every message a batch counts as processed is afterwards in the
\* Store with a processed_at that is not null, and a logs query that
\* follows (unfiltered, the rows within its limit, answered by the Store)
\* returns it; a malformed sibling leaves no row; the batch
\* [A, malformed, B] yields processed = 2, errors = 1 and A and B are
\* returned.
C13_ProcessedIsStoredAndReturned ==
    /\ [](ProcDone => StoredAndReturned(ProcessedIds))
    /\ []((LogsDone /\ logs.driver = "None" /\ logs.query = "None") => LogsStatus = 200)
    /\ [](BatchAMalformedB =>
            /\ ProcResponse.processed = 2
            /\ ProcResponse.errors = 1
            /\ ProcessedIds = {"id-1", "id-2"}
            /\ DOMAIN store = {"id-1", "id-2"})
    /\ [][NewRowsAreProcessed]_vars

\* the batch [A, malformed, B] was processed and a query without
\* parameters returned A and B
C13_Witness ==
    /\ BatchAMalformedB
    /\ ProcResponse.processed = 2
    /\ ProcResponse.errors = 1
    /\ AnsweredWithinLimit
    /\ logs.event = PyDict(<<>>)
    /\ Len(ReturnedLogs) = 2
    /\ ReturnedIds = {"id-1", "id-2"}

\* what Python's int() gives for the limit texts of the model that are
\* integer literals; the other texts ("abc", "", "1.5") are none
IntegerTexts ==
    [t \in {"200", "0", "1", "2", "100", "101", "-3", " 7 ", "1_0"} |->
        CASE t = "200" -> 200
          [] t = "0" -> 0
          [] t = "1" -> 1
          [] t = "2" -> 2
          [] t = "100" -> 100
          [] t = "101" -> 101
          [] t = "-3" -> 0 - 3
          [] t = " 7 " -> 7
          [] t = "1_0" -> 10]

\* the limit the claim gives a request with these query parameters
ClaimedLimit(parameters) ==
    IF ~HasKey(parameters, "limit") THEN 50
    ELSE IF DictGet(parameters, "limit", PyNone).s \notin DOMAIN IntegerTexts THEN 50
    ELSE IF IntegerTexts[DictGet(parameters, "limit", PyNone).s] > 100 THEN 100
    ELSE IF IntegerTexts[DictGet(parameters, "limit", PyNone).s] < 1 THEN 1
    ELSE IntegerTexts[DictGet(parameters, "limit", PyNone).s]

\* the invocation had a driver: that of an earlier one, or a new one
LogsConnected == logs.run.connected

\* C14: the limit the logs API passes to the Store is always in 1..100: a
\* numeric limit (an integer literal) is clamped into [1,100], an absent
\* limit is 50, and a non-numeric limit falls back to 50 instead of
\* producing an error response.
C14_LimitInRange ==
    LogsDone =>
        /\ logs.run.limit \in 0..100
        /\ logs.run.limit # 0 <=> LogsConnected
        /\ LogsConnected => logs.run.limit = ClaimedLimit(LogsQueryParameters)
        /\ (LogsConnected /\ logs.query = "None") => LogsStatus = 200
        /\ LogsStatus \in {200, 500}

\* limit=abc reached the Store as 50, and the Store's rows came back
C14_Witness ==
    /\ LogsDone
    /\ LogsStatus = 200
    /\ DictGet(LogsQueryParameters, "limit", PyNone) = PyStr("abc")
    /\ logs.run.limit = 50
    /\ Len(ReturnedLogs) > 0

====
